---------------------------- MODULE Spec2Model ----------------------------
(***************************************************************************)
(* Watchlist backend (src/backend/app.py): the items collection, the four  *)
(* REST handlers, the validator and the normalizer.                        *)
(*                                                                         *)
(* JSON values are records [kind, s, n, frac]:                             *)
(*   null                      kind "null"                                 *)
(*   a string                  kind "str",  s its characters               *)
(*   the number n or n + 1/2   kind "num",  n its floor, frac the half     *)
(*   a numeral beyond a double kind "inf"   (1e999 parses to float inf)    *)
(*   true / false              kind "bool", n = 1 / 0                      *)
(*   [] / [1]                  kind "arr",  n its length                   *)
(*   {} / {"k": 1}             kind "obj",  n its length                   *)
(*   a datetime                kind "date", n the clock reading            *)
(* Strings are sequences of one-character strings, so that str(), strip()  *)
(* and int() are computed and not assumed.                                 *)
(* The database is assumed to answer: the PyMongoError branches (500) are  *)
(* not part of the model.                                                  *)
(***************************************************************************)
EXTENDS Integers, Sequences, FiniteSets, TLC

VARIABLES coll, nextOid, clock, creating, req, resp, nreq, deleted

vars == <<coll, nextOid, clock, creating, req, resp, nreq, deleted>>

(* Bounds of the model *)
MaxOids == 4
MaxClock == 2
MaxRequests == 4
MaxSeededRequests == 1

(* ------------------------------ values ------------------------------- *)

Null == [kind |-> "null", s |-> <<>>, n |-> 0, frac |-> FALSE]
Str(chars) == [kind |-> "str", s |-> chars, n |-> 0, frac |-> FALSE]
Num(i) == [kind |-> "num", s |-> <<>>, n |-> i, frac |-> FALSE]
Half(i) == [kind |-> "num", s |-> <<>>, n |-> i, frac |-> TRUE]
Inf == [kind |-> "inf", s |-> <<>>, n |-> 0, frac |-> FALSE]
Bool(b) == [kind |-> "bool", s |-> <<>>, n |-> IF b THEN 1 ELSE 0, frac |-> FALSE]
Arr(len) == [kind |-> "arr", s |-> <<>>, n |-> len, frac |-> FALSE]
Obj(len) == [kind |-> "obj", s |-> <<>>, n |-> len, frac |-> FALSE]
Date(t) == [kind |-> "date", s |-> <<>>, n |-> t, frac |-> FALSE]

Movie == <<"M", "o", "v", "i", "e">>
TVShow == <<"T", "V", " ", "S", "h", "o", "w">>
Planned == <<"P", "l", "a", "n", "n", "e", "d">>
Watching == <<"W", "a", "t", "c", "h", "i", "n", "g">>
Completed == <<"C", "o", "m", "p", "l", "e", "t", "e", "d">>
Dropped == <<"D", "r", "o", "p", "p", "e", "d">>

ITEM_FIELDS ==
    {"title", "type", "status", "rating", "current_episode", "total_episodes",
     "notes", "date_added"}
REQUIRED_FIELDS == {"title"}
VALID_TYPES == {Movie, TVShow}
VALID_STATUSES == {Planned, Watching, Completed, Dropped}
RATING_MIN == 1
RATING_MAX == 10

(* --------------------------- Python built-ins ------------------------ *)

DigitChars == <<"0", "1", "2", "3", "4", "5", "6", "7", "8", "9">>

IsDigit(c) == \E i \in 1..10 : DigitChars[i] = c

DigitVal(c) == (CHOOSE i \in 1..10 : DigitChars[i] = c) - 1

IsSpace(c) == c = " "

RECURSIVE lstrip(_)
lstrip(s) == IF s # <<>> /\ IsSpace(Head(s)) THEN lstrip(Tail(s)) ELSE s

RECURSIVE rstrip(_)
rstrip(s) ==
    IF s # <<>> /\ IsSpace(s[Len(s)]) THEN rstrip(SubSeq(s, 1, Len(s) - 1)) ELSE s

(* str.strip() *)
strip(s) == rstrip(lstrip(s))

RECURSIVE NatToStr(_)
NatToStr(i) ==
    IF i < 10 THEN <<DigitChars[i + 1]>>
    ELSE NatToStr(i \div 10) \o <<DigitChars[(i % 10) + 1]>>

IntToStr(i) == IF i < 0 THEN <<"-">> \o NatToStr(0 - i) ELSE NatToStr(i)

(* int() of a float truncates toward zero; n is the floor of n + 1/2 *)
Trunc(v) == IF v.frac /\ v.n < 0 THEN v.n + 1 ELSE v.n

(* repr of the float n + 1/2 *)
HalfToStr(v) ==
    IF v.n < 0 THEN <<"-">> \o NatToStr(0 - (v.n + 1)) \o <<".", "5">>
    ELSE NatToStr(v.n) \o <<".", "5">>

(* str(v) *)
PyStr(v) ==
    CASE v.kind = "str" -> v.s
      [] v.kind = "num" -> IF v.frac THEN HalfToStr(v) ELSE IntToStr(v.n)
      [] v.kind = "inf" -> <<"i", "n", "f">>
      [] v.kind = "bool" -> IF v.n = 1 THEN <<"T", "r", "u", "e">>
                            ELSE <<"F", "a", "l", "s", "e">>
      [] v.kind = "null" -> <<"N", "o", "n", "e">>
      [] v.kind = "arr" -> IF v.n = 0 THEN <<"[", "]">> ELSE <<"[", "1", "]">>
      [] v.kind = "obj" -> IF v.n = 0 THEN <<"{", "}">>
                           ELSE <<"{", "'", "k", "'", ":", " ", "1", "}">>
      [] v.kind = "date" -> NatToStr(v.n)

RECURSIVE DigitsToNat(_)
DigitsToNat(s) ==
    IF s = <<>> THEN 0
    ELSE 10 * DigitsToNat(SubSeq(s, 1, Len(s) - 1)) + DigitVal(s[Len(s)])

AllDigits(s) == s # <<>> /\ \A i \in 1..Len(s) : IsDigit(s[i])

IntOk(i) == [exc |-> "", val |-> i]
IntRaise(e) == [exc |-> e, val |-> 0]

(* int() of a string: surrounding whitespace, an optional sign, digits *)
StrToInt(s) ==
    LET t == strip(s) IN
    IF t # <<>> /\ Head(t) = "-" /\ AllDigits(Tail(t))
        THEN IntOk(0 - DigitsToNat(Tail(t)))
    ELSE IF t # <<>> /\ Head(t) = "+" /\ AllDigits(Tail(t))
        THEN IntOk(DigitsToNat(Tail(t)))
    ELSE IF AllDigits(t) THEN IntOk(DigitsToNat(t))
    ELSE IntRaise("ValueError")

(* int(v): the value, or the exception it raises *)
PyInt(v) ==
    CASE v.kind = "num" -> IntOk(Trunc(v))
      [] v.kind = "bool" -> IntOk(v.n)
      [] v.kind = "str" -> StrToInt(v.s)
      [] v.kind = "inf" -> IntRaise("OverflowError")
      [] OTHER -> IntRaise("TypeError")

(* hash(v) raises TypeError for a list or a dict *)
Hashable(v) == v.kind \notin {"arr", "obj"}

(* v in S for a set S of strings *)
InStrSet(v, S) == v.kind = "str" /\ v.s \in S

(* ------------------------------ bodies -------------------------------- *)
(* What request.get_json(silent=True) returns: a dict (kind "obj", d its  *)
(* items) or another value (None when the body is missing or not JSON).   *)

EmptyDict == [k \in {} |-> Null]

DictBody(d) == [kind |-> "obj", truthy |-> DOMAIN d # {}, d |-> d]
OtherBody(kind, truthy) == [kind |-> kind, truthy |-> truthy, d |-> EmptyDict]
NoBody == OtherBody("null", FALSE)

(* data or {} *)
OrEmpty(data) == IF data.truthy THEN data ELSE DictBody(EmptyDict)

Has(data, k) == k \in DOMAIN data.d

(* ------------------------------ validator ----------------------------- *)

Valid == [err |-> "", status |-> 0, exc |-> ""]
Reject(msg) == [err |-> msg, status |-> 400, exc |-> ""]
Raise(e) == [err |-> "", status |-> 0, exc |-> e]

EpisodeCheck(data, ep) ==
    IF Has(data, ep) /\ data.d[ep] # Null THEN
        LET r == PyInt(data.d[ep]) IN
        IF r.exc \in {"TypeError", "ValueError"}
            THEN Reject(IF ep = "current_episode"
                        THEN "current_episode must be a number"
                        ELSE "total_episodes must be a number")
        ELSE IF r.exc # "" THEN Raise(r.exc)
        ELSE IF r.val < 0
            THEN Reject(IF ep = "current_episode"
                        THEN "current_episode must be non-negative"
                        ELSE "total_episodes must be non-negative")
        ELSE Valid
    ELSE Valid

(* RatingCheck with "and" for "or" in the range test *)
RatingCheckAnd(data) ==
    LET rating == IF Has(data, "rating") THEN data.d["rating"] ELSE Null IN
    IF rating # Null THEN
        LET r == PyInt(rating) IN
        IF r.exc \in {"TypeError", "ValueError"} THEN Reject("rating must be an integer")
        ELSE IF r.exc # "" THEN Raise(r.exc)
        ELSE IF r.val < RATING_MIN /\ r.val > RATING_MAX
            THEN Reject("rating must be between 1 and 10")
        ELSE Valid
    ELSE Valid

RatingCheck(data) ==
    LET rating == IF Has(data, "rating") THEN data.d["rating"] ELSE Null IN
    IF rating # Null THEN
        LET r == PyInt(rating) IN
        IF r.exc \in {"TypeError", "ValueError"} THEN Reject("rating must be an integer")
        ELSE IF r.exc # "" THEN Raise(r.exc)
        ELSE IF r.val < RATING_MIN \/ r.val > RATING_MAX
            THEN Reject("rating must be between 1 and 10")
        ELSE Valid
    ELSE Valid

EnumCheck(data, field, allowed, msg) ==
    IF Has(data, field) /\ data.d[field] # Null THEN
        IF ~Hashable(data.d[field]) THEN Raise("TypeError")
        ELSE IF ~InStrSet(data.d[field], allowed) THEN Reject(msg)
        ELSE Valid
    ELSE Valid

(* UnknownFieldCheck left out *)
UnknownFieldIgnored(data) == Valid

UnknownFieldCheck(data) ==
    IF \E key \in DOMAIN data.d : key \notin ITEM_FIELDS
        THEN Reject("Unknown field") ELSE Valid

(* the first check of the list that does not pass decides *)
RECURSIVE FirstFailure(_)
FirstFailure(checks) ==
    IF checks = <<>> THEN Valid
    ELSE IF Head(checks) # Valid THEN Head(checks)
    ELSE FirstFailure(Tail(checks))

validate_item(data, for_update) ==
    IF data.kind # "obj" THEN Reject("Request body must be JSON object")
    ELSE IF ~for_update /\ \E field \in REQUIRED_FIELDS :
                               ~Has(data, field) \/ data.d[field] = Null
        THEN Reject("Missing required field: title")
    ELSE IF Has(data, "title")
            /\ (data.d["title"] = Null \/ strip(PyStr(data.d["title"])) = <<>>)
        THEN Reject("title is required and cannot be empty")
    ELSE FirstFailure(<<
            UnknownFieldCheck(data),
            EnumCheck(data, "type", VALID_TYPES, "type must be one of"),
            EnumCheck(data, "status", VALID_STATUSES, "status must be one of"),
            RatingCheck(data),
            EpisodeCheck(data, "current_episode"),
            EpisodeCheck(data, "total_episodes")>>)

(* ------------------------------ normalizer ---------------------------- *)

(* NormalizeField without the strip() of the title *)
NormalizeUnstripped(k, v) ==
    CASE k = "title" -> Str(PyStr(v))
      [] k = "rating" -> Num(PyInt(v).val)
      [] k \in {"current_episode", "total_episodes"} -> Num(PyInt(v).val)
      [] k = "notes" -> Str(PyStr(v))
      [] OTHER -> v

NormalizeField(k, v) ==
    CASE k = "title" -> Str(strip(PyStr(v)))
      [] k = "rating" -> Num(PyInt(v).val)
      [] k \in {"current_episode", "total_episodes"} -> Num(PyInt(v).val)
      [] k = "notes" -> Str(PyStr(v))
      [] OTHER -> v

(* build_item_from_body without the "v is not None" filter *)
BuildKeepingNone(data) ==
    LET keep == {k \in DOMAIN data.d : k \in ITEM_FIELDS}
    IN  [k \in keep |-> NormalizeField(k, data.d[k])]

build_item_from_body(data) ==
    LET keep == {k \in DOMAIN data.d : k \in ITEM_FIELDS /\ data.d[k] # Null}
    IN  [k \in keep |-> NormalizeField(k, data.d[k])]

(* ------------------------------ storage ------------------------------- *)
(* coll maps the ObjectId of each stored document to its other fields.    *)

EmptyColl == [i \in {} |-> EmptyDict]

(* insert_one: the document gets the ObjectId the driver generated *)
insert_one(c, oid, doc) ==
    [i \in DOMAIN c \cup {oid} |-> IF i = oid THEN doc ELSE c[i]]

(* find_one({"_id": oid}) finds a document or None *)
Found(c, oid) == oid \in DOMAIN c

(* the document replaced by the updates, not merged with them *)
ReplaceFields(doc, updates) == updates

(* {"$set": updates} on one document *)
SetFields(doc, updates) ==
    [k \in DOMAIN doc \cup DOMAIN updates |->
        IF k \in DOMAIN updates THEN updates[k] ELSE doc[k]]

(* find_one_and_update without upsert *)
find_one_and_update(c, oid, updates) ==
    IF Found(c, oid) THEN [c EXCEPT ![oid] = SetFields(@, updates)] ELSE c

(* delete_one that matches no document *)
DeleteNone(c, oid) == c

delete_one(c, oid) == [i \in DOMAIN c \ {oid} |-> c[i]]

(* str(ObjectId) and ObjectId(str): decimal digits stand for the 24 hex digits *)
OidStr(oid) == NatToStr(oid)
is_valid(item_id) == AllDigits(item_id)
ObjectId(item_id) == DigitsToNat(item_id)

(* datetime.isoformat() *)
isoformat(v) == <<"T">> \o NatToStr(v.n)

serialize_item(oid, doc) ==
    [k \in DOMAIN doc \cup {"id"} |->
        IF k = "id" THEN Str(OidStr(oid))
        ELSE IF k = "date_added" /\ doc[k].kind = "date" THEN Str(isoformat(doc[k]))
        ELSE doc[k]]

(* BSON comparison order of the values a date_added can hold *)
AsciiOrder ==
    <<" ", "'", "+", "-", ".", "0", "1", "2", "3", "4", "5", "6", "7", "8", "9", ":",
      "C", "D", "F", "M", "N", "P", "S", "T", "V", "W", "[", "]",
      "a", "b", "c", "d", "e", "f", "g", "h", "i", "k", "l", "m", "n", "o", "p",
      "r", "s", "t", "u", "v", "w", "x", "{", "}">>

Ord(c) == CHOOSE i \in 1..Len(AsciiOrder) : AsciiOrder[i] = c

RECURSIVE StrLeq(_, _)
StrLeq(a, b) ==
    IF a = <<>> THEN TRUE
    ELSE IF b = <<>> THEN FALSE
    ELSE IF Head(a) # Head(b) THEN Ord(Head(a)) < Ord(Head(b))
    ELSE StrLeq(Tail(a), Tail(b))

(* an array sorts by its greatest element, an empty one below null *)
BsonRank(v) ==
    CASE v.kind = "arr" -> IF v.n = 0 THEN 0 ELSE 2
      [] v.kind = "null" -> 1
      [] v.kind \in {"num", "inf"} -> 2
      [] v.kind = "str" -> 3
      [] v.kind = "obj" -> 4
      [] v.kind = "bool" -> 5
      [] v.kind = "date" -> 6

BsonLeq(a, b) ==
    IF BsonRank(a) # BsonRank(b) THEN BsonRank(a) < BsonRank(b)
    ELSE CASE a.kind = "str" -> StrLeq(a.s, b.s)
           [] BsonRank(a) = 2 ->
                LET x == IF a.kind = "arr" THEN Num(1) ELSE a
                    y == IF b.kind = "arr" THEN Num(1) ELSE b
                IN  y.kind = "inf"
                    \/ (x.kind # "inf"
                        /\ (x.n < y.n \/ (x.n = y.n /\ (y.frac \/ ~x.frac))))
           [] a.kind \in {"bool", "date", "obj"} -> a.n <= b.n
           [] OTHER -> TRUE

SortKey(doc) == IF "date_added" \in DOMAIN doc THEN doc["date_added"] ELSE Null

(* the orders find().sort("date_added", -1) can return the documents in *)
SortedDescending(c) ==
    {order \in [1..Cardinality(DOMAIN c) -> DOMAIN c] :
        /\ \A i, j \in DOMAIN order : i # j => order[i] # order[j]
        /\ \A i, j \in DOMAIN order :
              i < j => BsonLeq(SortKey(c[order[j]]), SortKey(c[order[i]]))}

(* ------------------------------ responses ----------------------------- *)

ErrorResp(code, msg) ==
    [code |-> code, kind |-> "error", error |-> msg, doc |-> EmptyDict, items |-> <<>>]
ItemResp(code, doc) ==
    [code |-> code, kind |-> "item", error |-> "", doc |-> doc, items |-> <<>>]
NullResp(code) ==
    [code |-> code, kind |-> "null", error |-> "", doc |-> EmptyDict, items |-> <<>>]
ListResp(items) ==
    [code |-> 200, kind |-> "list", error |-> "", doc |-> EmptyDict, items |-> items]
MessageResp(code, msg) ==
    [code |-> code, kind |-> "message", error |-> msg, doc |-> EmptyDict, items |-> <<>>]
NoResp == [code |-> 0, kind |-> "none", error |-> "", doc |-> EmptyDict, items |-> <<>>]

(* jsonify(serialize_item(doc)) where doc may be None *)
JsonItem(code, c, oid) ==
    IF Found(c, oid) THEN ItemResp(code, serialize_item(oid, c[oid])) ELSE NullResp(code)

(* Flask answers an exception no handler catches with 500 *)
Unhandled == ErrorResp(500, "Internal Server Error")

(* the request answered last: seq numbers the requests in the order they   *)
(* arrive; item_id is the id of the URL and, for a POST, the string of the *)
(* ObjectId it inserted                                                    *)
Request(op, item_id, data, seq) ==
    [op |-> op, item_id |-> item_id, data |-> data, seq |-> seq]
NoRequest == Request("none", <<>>, NoBody, 0)
Idle == [active |-> FALSE, oid |-> 0, data |-> NoBody, seq |-> 0]

(* ------------------------------ inputs -------------------------------- *)

Dict1(k, v) == [x \in {k} |-> v]
Dict2(k1, v1, k2, v2) == [x \in {k1, k2} |-> IF x = k1 THEN v1 ELSE v2]

(* the dict of a sequence of <<key, value>> pairs with distinct keys *)
DictOf(pairs) ==
    [k \in {pairs[i][1] : i \in DOMAIN pairs} |->
        pairs[CHOOSE i \in DOMAIN pairs : pairs[i][1] = k][2]]

FieldValues(k) ==
    CASE k = "title" ->
            {Null, Str(<<>>), Str(<<" ">>), Str(<<" ", "a", " ">>), Str(<<"b">>), Num(7)}
      [] k = "type" ->
            {Null, Str(Movie), Str(TVShow), Str(<<"x">>), Num(1), Bool(TRUE), Arr(0),
             Obj(1)}
      [] k = "status" ->
            {Null, Str(Planned), Str(Dropped), Str(<<"x">>), Num(1), Arr(1)}
      [] k = "rating" ->
            {Null, Num(0), Num(1), Num(10), Num(11), Half(0), Half(5), Half(10),
             Str(<<"5">>), Str(<<"x">>), Bool(TRUE), Inf, Arr(0)}
      [] k = "current_episode" ->
            {Null, Num(0), Num(3), Num(0 - 1), Half(0 - 1), Str(<<"x">>)}
      [] k = "total_episodes" -> {Null, Num(3), Num(0 - 1), Inf}
      [] k = "notes" -> {Null, Str(<<"n">>), Num(7)}
      [] k = "date_added" -> {Null, Str(<<"x">>)}
      [] OTHER -> {Null, Num(1)}

Keys == ITEM_FIELDS \cup {"foo"}

(* bodies that vary one field over the kinds of value a JSON body can carry *)
FieldBodies ==
    {NoBody, OtherBody("arr", FALSE), OtherBody("arr", TRUE), DictBody(EmptyDict)}
    \cup UNION {{DictBody(Dict1(k, v)) : v \in FieldValues(k)} : k \in Keys}
    \cup UNION {{DictBody(Dict2("title", Str(<<"a">>), k, v)) : v \in FieldValues(k)} :
                    k \in Keys \ {"title"}}
    \cup UNION {{DictBody(Dict2("foo", Num(1), k, v)) : v \in FieldValues(k)} :
                    k \in {"title", "type", "rating"}}
    \cup {DictBody(Dict2("type", Null, "rating", Null))}

(* bodies of a client that creates, edits and deletes items *)
ClientBodies ==
    {DictBody(Dict1("title", Str(<<" ", "a", " ">>))),
     DictBody(DictOf(<<<<"title", Num(7)>>, <<"type", Str(TVShow)>>,
                       <<"rating", Half(10)>>, <<"current_episode", Half(0 - 1)>>,
                       <<"notes", Num(7)>>>>)),
     DictBody(DictOf(<<<<"title", Str(<<"b">>)>>, <<"status", Null>>,
                       <<"rating", Str(<<"5">>)>>, <<"total_episodes", Num(3)>>,
                       <<"date_added", Str(<<"x">>)>>>>)),
     DictBody(Dict2("status", Str(Dropped), "rating", Num(1))),
     DictBody(Dict2("rating", Num(11), "type", Str(Movie))),
     DictBody(Dict1("date_added", Str(<<"x">>)))}

(* the ids a client sends: those generated so far, one that was not, a malformed one *)
ItemIds == {OidStr(i) : i \in 1..nextOid} \cup {<<"z">>}

(* src/backend/seed.py *)
SAMPLES(t1, t2, t3) ==
    <<DictOf(<<<<"title", Str(<<"I", "n", "c", "e", "p", "t", "i", "o", "n">>)>>, <<"type", Str(Movie)>>,
               <<"status", Str(Completed)>>, <<"rating", Num(9)>>,
               <<"notes", Str(<<"M", "i", "n", "d", "-", "b", "e", "n", "d", "i", "n", "g", " ", "t", "h", "r", "i", "l", "l", "e", "r", ".">>)>>, <<"date_added", Date(t1)>>>>),
      DictOf(<<<<"title", Str(<<"B", "r", "e", "a", "k", "i", "n", "g", " ", "B", "a", "d">>)>>, <<"type", Str(TVShow)>>,
               <<"status", Str(Watching)>>, <<"rating", Num(10)>>,
               <<"current_episode", Num(3)>>, <<"total_episodes", Num(62)>>,
               <<"notes", Str(<<"S", "e", "a", "s", "o", "n", " ", "1", ".">>)>>, <<"date_added", Date(t2)>>>>),
      DictOf(<<<<"title", Str(<<"T", "h", "e", " ", "S", "h", "a", "w", "s", "h", "a", "n", "k", " ", "R", "e", "d", "e", "m", "p", "t", "i", "o", "n">>)>>, <<"type", Str(Movie)>>,
               <<"status", Str(Planned)>>, <<"notes", Str(<<"C", "l", "a", "s", "s", "i", "c", " ", "t", "o", " ", "w", "a", "t", "c", "h", ".">>)>>,
               <<"date_added", Date(t3)>>>>)>>

(* insert_many into an empty collection *)
insert_many(docs) == [i \in DOMAIN docs |-> docs[i]]

(* ------------------------------ handlers ------------------------------ *)

Init ==
    /\ coll = EmptyColl
    /\ nextOid = 1
    /\ clock = 1
    /\ creating = Idle
    /\ req = NoRequest
    /\ resp = NoResp
    /\ nreq = 0
    /\ deleted = {}

(* the time passes between two readings of datetime.utcnow() *)
Tick ==
    /\ clock < MaxClock
    /\ clock' = clock + 1
    /\ UNCHANGED <<coll, nextOid, creating, req, resp, nreq, deleted>>

list_items ==
    /\ \E order \in SortedDescending(coll) :
          resp' = ListResp([i \in DOMAIN order |->
                               serialize_item(order[i], coll[order[i]])])
    /\ req' = Request("GET", <<>>, NoBody, nreq + 1)
    /\ nreq' = nreq + 1
    /\ UNCHANGED <<coll, nextOid, clock, creating, deleted>>

(* doc[k] = v *)
SetItem(doc, k, v) == [x \in DOMAIN doc \cup {k} |-> IF x = k THEN v ELSE doc[x]]

(* doc.setdefault(k, v) *)
setdefault(doc, k, v) == IF k \in DOMAIN doc THEN doc ELSE SetItem(doc, k, v)

(* the document create_item inserts *)
NewDoc(data, now) ==
    SetItem(setdefault(setdefault(build_item_from_body(data), "type", Str(Movie)),
                       "status", Str(Planned)),
            "date_added", Date(now))

(* POST /api/items up to and including insert_one *)
create_item(data) ==
    /\ ~creating.active
    /\ nreq' = nreq + 1
    /\ LET v == validate_item(OrEmpty(data), FALSE) IN
       IF v.exc # "" \/ v.err # "" THEN
           /\ resp' = IF v.exc # "" THEN Unhandled ELSE ErrorResp(v.status, v.err)
           /\ req' = Request("POST", <<>>, data, nreq + 1)
           /\ UNCHANGED <<coll, nextOid, clock, creating, deleted>>
       ELSE
           /\ nextOid <= MaxOids
           /\ coll' = insert_one(coll, nextOid, NewDoc(data, clock))
           /\ nextOid' = nextOid + 1
           /\ creating' = [active |-> TRUE, oid |-> nextOid, data |-> data, seq |-> nreq + 1]
           /\ UNCHANGED <<clock, req, resp, deleted>>

(* POST /api/items from find_one to the response *)
create_item_refetch ==
    /\ creating.active
    /\ resp' = JsonItem(201, coll, creating.oid)
    /\ req' = Request("POST", OidStr(creating.oid), creating.data, creating.seq)
    /\ creating' = Idle
    /\ UNCHANGED <<coll, nextOid, clock, nreq, deleted>>

update_item(item_id, data) ==
    /\ nreq' = nreq + 1
    /\ req' = Request("PUT", item_id, data, nreq + 1)
    /\ LET v == validate_item(OrEmpty(data), TRUE)
           updates == build_item_from_body(OrEmpty(data))
           oid == ObjectId(item_id)
       IN  IF ~is_valid(item_id) THEN
               resp' = ErrorResp(400, "Invalid item id") /\ coll' = coll
           ELSE IF v.exc # "" THEN resp' = Unhandled /\ coll' = coll
           ELSE IF v.err # "" THEN resp' = ErrorResp(v.status, v.err) /\ coll' = coll
           ELSE IF DOMAIN updates = {} THEN
               resp' = ErrorResp(400, "No valid fields to update") /\ coll' = coll
           ELSE
               /\ coll' = find_one_and_update(coll, oid, updates)
               /\ resp' = IF Found(coll', oid) THEN JsonItem(200, coll', oid)
                          ELSE ErrorResp(404, "Item not found")
    /\ UNCHANGED <<nextOid, clock, creating, deleted>>

delete_item(item_id) ==
    /\ nreq' = nreq + 1
    /\ req' = Request("DELETE", item_id, NoBody, nreq + 1)
    /\ IF ~is_valid(item_id) THEN
           /\ resp' = ErrorResp(400, "Invalid item id")
           /\ UNCHANGED <<coll, deleted>>
       ELSE IF ~Found(coll, ObjectId(item_id)) THEN
           /\ resp' = ErrorResp(404, "Item not found")
           /\ UNCHANGED <<coll, deleted>>
       ELSE
           /\ coll' = delete_one(coll, ObjectId(item_id))
           /\ resp' = MessageResp(200, "Item deleted")
           /\ deleted' = deleted \cup {ObjectId(item_id)}
    /\ UNCHANGED <<nextOid, clock, creating>>

(* the database after seed.py ran on an empty one, within one clock reading *)
InitSeeded ==
    /\ clock = 1
    /\ coll = insert_many(SAMPLES(clock, clock, clock))
    /\ nextOid = 4
    /\ creating = Idle
    /\ req = NoRequest
    /\ resp = NoResp
    /\ nreq = 0
    /\ deleted = {}

Next ==
    \/ Tick
    \/ create_item_refetch
    \/ nreq < MaxRequests /\ list_items
    \/ nreq < MaxRequests /\ \E data \in ClientBodies : create_item(data)
    \/ nreq < MaxRequests
       /\ \E item_id \in ItemIds, data \in ClientBodies : update_item(item_id, data)
    \/ nreq < MaxRequests /\ \E item_id \in ItemIds : delete_item(item_id)

NextSeeded ==
    \/ Tick
    \/ create_item_refetch
    \/ nreq < MaxSeededRequests /\ list_items
    \/ nreq < MaxSeededRequests /\ \E data \in FieldBodies : create_item(data)
    \/ nreq < MaxSeededRequests
       /\ \E item_id \in ItemIds, data \in FieldBodies : update_item(item_id, data)
    \/ nreq < MaxSeededRequests /\ \E item_id \in ItemIds : delete_item(item_id)

Spec == Init /\ [][Next]_vars

SpecSeeded == InitSeeded /\ [][NextSeeded]_vars

(* ------------------------------ properties ---------------------------- *)

(* a step in which a request is answered: req' and resp' are the request and *)
(* its response                                                              *)
AnswerStep ==
    \/ nreq' # nreq /\ creating' = creating
    \/ creating.active /\ ~creating'.active

(* the step in which create_item inserts *)
InsertStep == ~creating.active /\ creating'.active

IsWrite(r) == r.op \in {"POST", "PUT"}

Given(data) == {k \in DOMAIN data.d : data.d[k] # Null}

(* a write whose body satisfies P is answered 400 and stores nothing *)
RejectedStep(P(_)) ==
    /\ AnswerStep /\ IsWrite(req') /\ P(req'.data) => resp'.code = 400 /\ coll' = coll
    /\ InsertStep => ~P(creating'.data)

(* C1: the stored date_added of an item never changes after its creation *)
C1_DateAddedImmutable ==
    [][\A i \in DOMAIN coll \cap DOMAIN coll' :
          coll'[i]["date_added"] = coll[i]["date_added"]]_vars

RatingInRange(v) ==
    v.kind = "num" /\ v.n >= RATING_MIN
    /\ (v.n < RATING_MAX \/ (v.n = RATING_MAX /\ ~v.frac))

RatingErrors == {"rating must be between 1 and 10", "rating must be an integer"}

(* C2: a numeric rating outside 1..10 is answered 400, and one inside 1..10 *)
(* is not rejected on account of the rating                                 *)
C2_RatingRangeDecides ==
    (IsWrite(req) /\ Has(req.data, "rating")
     /\ req.data.d["rating"].kind \in {"num", "inf"})
    => IF RatingInRange(req.data.d["rating"])
       THEN resp.error \notin RatingErrors /\ resp.code # 500
       ELSE resp.code = 400

(* the previous answer is the 201 of a POST and no request came after it *)
JustCreated == req.op = "POST" /\ resp.code = 201 /\ req.seq = nreq

ListedItem(items, id) ==
    items[CHOOSE i \in DOMAIN items : items[i]["id"] = Str(id)]

IsListed(items, id) == \E i \in DOMAIN items : items[i]["id"] = Str(id)

(* C3 as claimed: a GET right after a 201 POST returns the item with every *)
(* field of the payload at the value given                                 *)
C3_RoundTripIdentity ==
    [][(AnswerStep /\ req'.op = "GET" /\ JustCreated)
       => /\ IsListed(resp'.items, req.item_id)
          /\ LET item == ListedItem(resp'.items, req.item_id) IN
             \A k \in DOMAIN req.data.d :
                k \in DOMAIN item /\ item[k] = req.data.d[k]]_vars

(* the value a stored field has for the value v given *)
Normal(k, v) ==
    CASE k = "title" -> Str(strip(PyStr(v)))
      [] k \in {"rating", "current_episode", "total_episodes"} -> Num(PyInt(v).val)
      [] k = "notes" -> Str(PyStr(v))
      [] OTHER -> v

(* C3 amended: a GET right after a 201 POST returns the item with every     *)
(* non-null field of the payload but date_added at its normalized value     *)
(* (title a stripped string, rating and episodes integers, notes a string), *)
(* type and status defaulted when not given, no field for a null, and id    *)
(* and date_added generated by the server                                   *)
C3_RoundTripNormalized ==
    [][(AnswerStep /\ req'.op = "GET" /\ JustCreated)
       => /\ IsListed(resp'.items, req.item_id)
          /\ LET item == ListedItem(resp'.items, req.item_id)
                 given == Given(req.data)
             IN  /\ DOMAIN item = given \cup {"id", "date_added", "type", "status"}
                 /\ \A k \in given \ {"date_added"} : item[k] = Normal(k, req.data.d[k])
                 /\ "type" \notin given => item["type"] = Str(Movie)
                 /\ "status" \notin given => item["status"] = Str(Planned)
                 /\ \E t \in 1..clock : item["date_added"] = Str(isoformat(Date(t)))]_vars

C3_Witness ==
    /\ req.op = "GET" /\ req.seq = 2 /\ ~creating.active
    /\ \E i \in DOMAIN resp.items :
          /\ resp.items[i]["title"] = Str(<<"7">>)
          /\ resp.items[i]["rating"] = Num(10)
          /\ resp.items[i]["notes"] = Str(<<"7">>)

BadEnum(data) ==
    \/ "type" \in Given(data) /\ ~InStrSet(data.d["type"], VALID_TYPES)
    \/ "status" \in Given(data) /\ ~InStrSet(data.d["status"], VALID_STATUSES)

(* C4: a write whose type or status is present, non-null and outside its *)
(* enum is answered 400 and stores nothing, whatever the kind of value   *)
C4_BadEnumRejected == [][RejectedStep(BadEnum)]_vars

HasUnknownKey(data) == \E k \in DOMAIN data.d : k \notin ITEM_FIELDS

(* C5: a write with a key outside the allow-list is answered 400 and the *)
(* collection is unchanged                                               *)
C5_UnknownKeyRejected == [][RejectedStep(HasUnknownKey)]_vars

C5_Witness ==
    /\ req.op = "PUT" /\ is_valid(req.item_id) /\ Found(coll, ObjectId(req.item_id))
    /\ HasUnknownKey(req.data)
    /\ "rating" \in Given(req.data) /\ RatingInRange(req.data.d["rating"])
    /\ resp.code = 400 /\ resp.error = "Unknown field"

(* C6: once DELETE answered 200 for an id, no GET lists it and every DELETE *)
(* of it is answered 404 "Item not found"                                   *)
C6_DeletedStaysDeleted ==
    [][/\ (AnswerStep /\ req'.op = "GET")
          => \A i \in DOMAIN resp'.items :
                ObjectId(resp'.items[i]["id"].s) \notin deleted
       /\ (AnswerStep /\ req'.op = "DELETE" /\ is_valid(req'.item_id)
           /\ ObjectId(req'.item_id) \in deleted)
          => resp' = ErrorResp(404, "Item not found")]_vars

C6_Witness ==
    /\ req.op = "DELETE" /\ is_valid(req.item_id)
    /\ ObjectId(req.item_id) \in deleted
    /\ resp.code = 404
    /\ coll # EmptyColl

EmptyEffective(data) ==
    \/ ~data.truthy
    \/ data.kind = "obj" /\ ~HasUnknownKey(data) /\ Given(data) = {}

(* C7: a PUT with a well-formed id and an empty effective field set is     *)
(* answered 400 and changes nothing; a PUT changes the collection only if  *)
(* a recognized non-null field is given                                    *)
C7_EmptyUpdateRejected ==
    [][(AnswerStep /\ req'.op = "PUT")
       => /\ (is_valid(req'.item_id) /\ EmptyEffective(req'.data))
             => resp'.code = 400 /\ coll' = coll
          /\ coll' # coll => Given(req'.data) \cap ITEM_FIELDS # {}]_vars

C7_Witness ==
    /\ req.op = "PUT" /\ is_valid(req.item_id) /\ Found(coll, ObjectId(req.item_id))
    /\ req.data.truthy /\ EmptyEffective(req.data)
    /\ resp = ErrorResp(400, "No valid fields to update")

(* a PUT answered 200 set exactly the non-null fields given and kept the rest *)
UpdateFrame ==
    (AnswerStep /\ req'.op = "PUT")
    => IF resp'.code = 200
       THEN LET oid == ObjectId(req'.item_id)
                given == Given(req'.data)
            IN  /\ Found(coll, oid)
                /\ DOMAIN coll' = DOMAIN coll
                /\ \A i \in DOMAIN coll \ {oid} : coll'[i] = coll[i]
                /\ DOMAIN coll'[oid] = DOMAIN coll[oid] \cup given
                /\ \A k \in DOMAIN coll'[oid] :
                      coll'[oid][k] = IF k \in given THEN Normal(k, req'.data.d[k])
                                      ELSE coll[oid][k]
                /\ resp'.doc = serialize_item(oid, coll'[oid])
       ELSE coll' = coll

Unmatched(r) == is_valid(r.item_id) /\ ~Found(coll, ObjectId(r.item_id))

C9_CreatedReturned ==
    (req.op = "POST" /\ resp.code = 201)
    => resp.kind = "item" /\ resp.doc["id"] = Str(req.item_id)

IsWhole(v) == v.kind = "num" /\ ~v.frac

ValidStored(doc) ==
    /\ {"title", "type", "status"} \subseteq DOMAIN doc
    /\ doc["title"].kind = "str"
    /\ doc["title"].s # <<>>
    /\ ~IsSpace(Head(doc["title"].s))
    /\ ~IsSpace(doc["title"].s[Len(doc["title"].s)])
    /\ InStrSet(doc["type"], VALID_TYPES)
    /\ InStrSet(doc["status"], VALID_STATUSES)
    /\ "rating" \in DOMAIN doc
       => IsWhole(doc["rating"]) /\ doc["rating"].n \in RATING_MIN..RATING_MAX
    /\ \A ep \in {"current_episode", "total_episodes"} \cap DOMAIN doc :
          IsWhole(doc[ep]) /\ doc[ep].n >= 0

(* C10: every stored item has a stripped non-empty title, a type and a  *)
(* status of their enums, a rating absent or an integer of 1..10, and   *)
(* episode counts absent or integers of at least 0                      *)
C10_StoredItemsValid == \A i \in DOMAIN coll : ValidStored(coll[i])

C10_Witness ==
    /\ req.op = "PUT" /\ resp.code = 200
    /\ \E i \in DOMAIN coll :
          /\ coll[i]["title"] = Str(<<"7">>)
          /\ coll[i]["rating"] = Num(1)
          /\ coll[i]["current_episode"] = Num(0)
          /\ coll[i]["status"] = Str(Dropped)

=============================================================================
